---- MODULE Spec2Model ----
(***************************************************************************)
(* Model of the CDN load-balancer controller (src/ryu.py, class           *)
(* CDNLoadBalancer): the learning tables, the switch-features handler and  *)
(* the packet-in handler with its three branches (ARP, TCP port 80,        *)
(* learning switch).  Every handler runs to completion; the messages it    *)
(* sends to the switch are recorded in `sent`, its event in `msg`.         *)
(***************************************************************************)
EXTENDS Integers, Sequences, FiniteSets, TLC

(* ---------------------------------------------------------------------- *)
(* Bounds of the model                                                     *)
(* ---------------------------------------------------------------------- *)
NumPorts == 2

Switches == {1, 2}
Ports == 1..NumPorts
MACs == {"00:00:00:00:00:0a", "00:00:00:00:00:0b"}

(* ---------------------------------------------------------------------- *)
(* Program constants                                                       *)
(* ---------------------------------------------------------------------- *)
central_server_ip == "10.0.0.1"

client_to_edge_server_map ==
    [c \in {"10.0.1.100", "10.0.2.100"} |->
        IF c = "10.0.1.100" THEN "10.0.1.1" ELSE "10.0.2.1"]

\* addresses carried by the packets of the model: the hosts that announce
\* themselves by ARP and are destinations (the central server, the client
\* with an affinity entry and its edge server), and the clients that send
\* HTTP requests (that client and one without an affinity entry)
OtherClientIp == "10.0.3.100"
IPs == {central_server_ip, "10.0.1.100", "10.0.1.1"}
ClientIPs == {"10.0.1.100", OtherClientIp}

\* OpenFlow 1.3 reserved ports 0xfffffffb and 0xfffffffd as 32-bit values
OFPP_FLOOD == 0 - 5
OFPP_CONTROLLER == 0 - 3
OFPCML_NO_BUFFER == 65535
\* default max_len of OFPActionOutput
OFPCML_MAX == 65509
OFP_NO_BUFFER == "OFP_NO_BUFFER"
OFP_ETH_TYPE_ARP == 2054
OFP_ETH_TYPE_IP == 2048
IPPROTO_TCP == 6
HTTP_PORT == 80

BASE_PRIORITY == 0
ARP_PRIORITY == 100
HTTP_PRIORITY == 10
L2_PRIORITY == 1
HTTP_IDLE_TIMEOUT == 300
HTTP_HARD_TIMEOUT == 600

(* ---------------------------------------------------------------------- *)
(* Packets: ethernet header plus optional arp / ipv4 / tcp headers, each   *)
(* optional header a sequence of length 0 or 1 (get_protocol -> None)      *)
(* ---------------------------------------------------------------------- *)
EthFrames(ethertype, arps, ips, tcps) ==
    { [eth_dst |-> dm, eth_src |-> sm, ethertype |-> ethertype,
       arp |-> a, ipv4 |-> i, tcp |-> t] :
        dm \in MACs, sm \in MACs, a \in arps, i \in ips, t \in tcps }

ArpPackets ==
    EthFrames(OFP_ETH_TYPE_ARP,
              { <<[src_ip |-> a, src_mac |-> m]>> : a \in IPs, m \in MACs },
              {<<>>}, {<<>>})

\* IPv4 + TCP to port 80, the redirection path
HttpPackets ==
    EthFrames(OFP_ETH_TYPE_IP, {<<>>},
              { <<[src |-> s, dst |-> d, proto |-> IPPROTO_TCP]>> :
                    s \in ClientIPs, d \in IPs },
              {<<[dst_port |-> HTTP_PORT]>>})

\* IPv4 + TCP to another port, IPv4 without TCP, TCP to port 80 without an
\* IPv4 header (IPv6), and a frame with none of the three headers
OtherPackets ==
    EthFrames(OFP_ETH_TYPE_IP, {<<>>},
              {<<[src |-> "10.0.1.100", dst |-> central_server_ip,
                  proto |-> IPPROTO_TCP]>>},
              {<<[dst_port |-> 8080]>>})
    \cup EthFrames(OFP_ETH_TYPE_IP, {<<>>},
              {<<[src |-> "10.0.1.100", dst |-> central_server_ip,
                  proto |-> 17]>>},
              {<<>>})
    \cup EthFrames(34525, {<<>>}, {<<>>},
              {<<[dst_port |-> HTTP_PORT]>>})
    \cup EthFrames(35020, {<<>>}, {<<>>}, {<<>>})

Packets == ArpPackets \cup HttpPackets \cup OtherPackets

\* one packet of each kind per pair of addresses, for the runs that follow
\* the history of a binding of the MAC table
LearnPackets ==
    { pkt \in Packets :
        /\ pkt.arp # <<>> =>
              pkt.arp[1] = [src_ip |-> "10.0.1.1", src_mac |-> pkt.eth_src]
        /\ pkt.ipv4 # <<>> =>
              /\ pkt.ipv4[1].src = "10.0.1.100"
              /\ pkt.ipv4[1].dst = central_server_ip }

(* ---------------------------------------------------------------------- *)
(* State                                                                   *)
(* ---------------------------------------------------------------------- *)
VARIABLES
    mac_to_port,      \* dpid -> (MAC -> port), both dicts growing
    ip_to_mac,        \* IP -> MAC, global
    datapaths,        \* switches whose features event has been handled
    msg,              \* the event being handled, NoEvent between events
    target_server_ip, \* the redirection decision of that event, <<>> if none
    sent,             \* the messages the handler sent, in order
    prior,            \* history: the port the source MAC of the packet-in was
                      \* bound to before the handler ran (followed in SpecLearn)
    flow_table,       \* dpid -> the flow entries of the switch (SpecSwitch)
    dataplane         \* the packet inside a switch and what the switch did
                      \* with it (SpecSwitch)

vars == <<mac_to_port, ip_to_mac, datapaths, msg, target_server_ip, sent, prior,
          flow_table, dataplane>>

\* the state of the switches, which no handler of the controller reads
switch_vars == <<flow_table, dataplane>>

(* ---------------------------------------------------------------------- *)
(* Messages to the switch                                                  *)
(* ---------------------------------------------------------------------- *)
OFPActionOutput(port, max_len) ==
    [type |-> "OUTPUT", port |-> port, max_len |-> max_len,
     field |-> "", value |-> ""]

OFPActionSetField(field, value) ==
    [type |-> "SET_FIELD", port |-> 0, max_len |-> 0,
     field |-> field, value |-> value]

\* add_flow: one flow-mod with the caller's priority, match, actions, timeouts
add_flow(datapath, priority, match, actions, idle_timeout, hard_timeout) ==
    [type |-> "flow_mod", datapath |-> datapath, priority |-> priority,
     match |-> match, instructions |-> actions,
     idle_timeout |-> idle_timeout, hard_timeout |-> hard_timeout]

OFPPacketOut(datapath, buffer_id, in_port, actions, data) ==
    [type |-> "packet_out", datapath |-> datapath, buffer_id |-> buffer_id,
     in_port |-> in_port, actions |-> actions, data |-> data]

(* ---------------------------------------------------------------------- *)
(* Learning tables                                                         *)
(* ---------------------------------------------------------------------- *)
EmptyDict == [k \in {} |-> 0]

\* dict.get(key): a sequence holding the value, empty for None
DictGet(dict, key) == IF key \in DOMAIN dict THEN <<dict[key]>> ELSE <<>>

\* mutant: a MAC already bound keeps its port
LearnMac_KeepFirst(mtp, dpid, src_mac, in_port) ==
    LET tbl == IF dpid \in DOMAIN mtp THEN mtp[dpid] ELSE EmptyDict
        new == [m \in DOMAIN tbl \cup {src_mac} |->
                    IF m \in DOMAIN tbl THEN tbl[m] ELSE in_port]
    IN  [d \in DOMAIN mtp \cup {dpid} |-> IF d = dpid THEN new ELSE mtp[d]]

\* mutant: a source seen again flushes the other bindings of its switch
LearnMac_FlushOnRelearn(mtp, dpid, src_mac, in_port) ==
    LET tbl == IF dpid \in DOMAIN mtp THEN mtp[dpid] ELSE EmptyDict
        kept == IF src_mac \in DOMAIN tbl THEN {} ELSE DOMAIN tbl
        new == [m \in kept \cup {src_mac} |->
                    IF m = src_mac THEN in_port ELSE tbl[m]]
    IN  [d \in DOMAIN mtp \cup {dpid} |-> IF d = dpid THEN new ELSE mtp[d]]

\* mutant: the table not scoped by switch, the binding written for every
\* switch that has a table
LearnMac_EverySwitch(mtp, dpid, src_mac, in_port) ==
    [d \in DOMAIN mtp \cup {dpid} |->
        LET tbl == IF d \in DOMAIN mtp THEN mtp[d] ELSE EmptyDict
        IN  [m \in DOMAIN tbl \cup {src_mac} |->
                IF m = src_mac THEN in_port ELSE tbl[m]]]

\* self.mac_to_port.setdefault(dpid, {}); self.mac_to_port[dpid][src_mac] = in_port
LearnMac(mtp, dpid, src_mac, in_port) ==
    LET tbl == IF dpid \in DOMAIN mtp THEN mtp[dpid] ELSE EmptyDict
        new == [m \in DOMAIN tbl \cup {src_mac} |->
                    IF m = src_mac THEN in_port ELSE tbl[m]]
    IN  [d \in DOMAIN mtp \cup {dpid} |-> IF d = dpid THEN new ELSE mtp[d]]

\* mutant: the first binding of an address kept (setdefault)
LearnIp_KeepFirst(itm, src_ip, src_mac) ==
    [a \in DOMAIN itm \cup {src_ip} |-> IF a \in DOMAIN itm THEN itm[a] ELSE src_mac]

\* self.ip_to_mac[_arp.src_ip] = _arp.src_mac
LearnIp(itm, src_ip, src_mac) ==
    [a \in DOMAIN itm \cup {src_ip} |-> IF a = src_ip THEN src_mac ELSE itm[a]]

(* ---------------------------------------------------------------------- *)
(* Switch-features handler                                                 *)
(* ---------------------------------------------------------------------- *)
\* OFPMatch() without fields: every field a wildcard
OFPMatchAll == EmptyDict

\* mutant: the ARP flood rule sent before the table-miss rule
BaselineFlows_ArpFirst(datapath) ==
    << add_flow(datapath, ARP_PRIORITY, [eth_type |-> OFP_ETH_TYPE_ARP],
                <<OFPActionOutput(OFPP_FLOOD, OFPCML_MAX)>>, 0, 0),
       add_flow(datapath, BASE_PRIORITY, OFPMatchAll,
                <<OFPActionOutput(OFPP_CONTROLLER, OFPCML_NO_BUFFER)>>, 0, 0) >>

\* mutant: the ARP rule floods and also sends the packet to the controller
BaselineFlows_ArpToController(datapath) ==
    << add_flow(datapath, BASE_PRIORITY, OFPMatchAll,
                <<OFPActionOutput(OFPP_CONTROLLER, OFPCML_NO_BUFFER)>>, 0, 0),
       add_flow(datapath, ARP_PRIORITY, [eth_type |-> OFP_ETH_TYPE_ARP],
                <<OFPActionOutput(OFPP_FLOOD, OFPCML_MAX),
                  OFPActionOutput(OFPP_CONTROLLER, OFPCML_NO_BUFFER)>>, 0, 0) >>

BaselineFlows(datapath) ==
    << add_flow(datapath, BASE_PRIORITY, OFPMatchAll,
                <<OFPActionOutput(OFPP_CONTROLLER, OFPCML_NO_BUFFER)>>, 0, 0),
       add_flow(datapath, ARP_PRIORITY, [eth_type |-> OFP_ETH_TYPE_ARP],
                <<OFPActionOutput(OFPP_FLOOD, OFPCML_MAX)>>, 0, 0) >>

switch_features_handler(datapath) ==
    /\ sent = <<>>
    /\ msg' = [type |-> "switch_features", datapath |-> datapath]
    /\ sent' = BaselineFlows(datapath)
    /\ datapaths' = datapaths \cup {datapath}
    /\ target_server_ip' = <<>>
    /\ prior' = <<>>
    /\ UNCHANGED <<mac_to_port, ip_to_mac>>

(* ---------------------------------------------------------------------- *)
(* Packet-in handler                                                       *)
(* ---------------------------------------------------------------------- *)
\* mutant: the ARP branch learns and returns without a packet-out
ArpSent_LearnOnly(mtp, datapath, in_port, buffer_id, pkt) == <<>>

\* ARP branch: output port for the ARP packet and the packet-out
ArpSent(mtp, datapath, in_port, buffer_id, pkt) ==
    LET out_port == IF pkt.eth_dst \in DOMAIN mtp[datapath]
                    THEN mtp[datapath][pkt.eth_dst] ELSE OFPP_FLOOD
    IN  << OFPPacketOut(datapath, buffer_id, in_port,
                        <<OFPActionOutput(out_port, OFPCML_MAX)>>, pkt) >>

\* mutant: the destination port not tested
IsHttp_AnyPort(pkt) ==
    /\ pkt.ipv4 # <<>>
    /\ pkt.tcp # <<>>

\* if _ipv4 and _tcp and _tcp.dst_port == 80
IsHttp(pkt) ==
    /\ pkt.ipv4 # <<>>
    /\ pkt.tcp # <<>>
    /\ pkt.tcp[1].dst_port = HTTP_PORT

\* mutant: the affinity table consulted with the destination address
ChooseTarget_ByDestination(src_ip, dst_ip) ==
    IF dst_ip = central_server_ip /\ dst_ip \in DOMAIN client_to_edge_server_map
    THEN client_to_edge_server_map[dst_ip]
    ELSE dst_ip

\* the redirection decision
ChooseTarget(src_ip, dst_ip) ==
    IF dst_ip = central_server_ip /\ src_ip \in DOMAIN client_to_edge_server_map
    THEN client_to_edge_server_map[src_ip]
    ELSE dst_ip

\* new_eth / new_ipv4 / new_pkt: the packet re-built with the target's addresses
RewritePacket(pkt, target_server_mac, target_ip) ==
    [eth_dst |-> target_server_mac, eth_src |-> pkt.eth_src,
     ethertype |-> pkt.ethertype, arp |-> pkt.arp,
     ipv4 |-> <<[src |-> pkt.ipv4[1].src, dst |-> target_ip,
                 proto |-> pkt.ipv4[1].proto]>>,
     tcp |-> pkt.tcp]

\* mutant: the output action placed before the rewrites
HttpActions_OutputFirst(target_ip, target_server_mac, out_port) ==
    << OFPActionOutput(out_port, OFPCML_MAX),
       OFPActionSetField("ipv4_dst", target_ip),
       OFPActionSetField("eth_dst", target_server_mac) >>

HttpActions(target_ip, target_server_mac, out_port) ==
    << OFPActionSetField("ipv4_dst", target_ip),
       OFPActionSetField("eth_dst", target_server_mac),
       OFPActionOutput(out_port, OFPCML_MAX) >>

HttpMatch(in_port, src_ip, dst_ip, tcp_dst) ==
    [in_port |-> in_port, eth_type |-> OFP_ETH_TYPE_IP, ip_proto |-> IPPROTO_TCP,
     ipv4_src |-> src_ip, ipv4_dst |-> dst_ip, tcp_dst |-> tcp_dst]

\* `not x` for the result of dict.get: None, an empty MAC string, a port 0
NotMac(opt) == opt = <<>> \/ opt[1] = ""
NotPort(opt) == opt = <<>> \/ opt[1] = 0

\* mutant: the flood decision cached as a flow
UnresolvedSent_CachesFlood(datapath, in_port, buffer_id, pkt) ==
    << add_flow(datapath, HTTP_PRIORITY,
                HttpMatch(in_port, pkt.ipv4[1].src, pkt.ipv4[1].dst,
                          pkt.tcp[1].dst_port),
                <<OFPActionOutput(OFPP_FLOOD, OFPCML_MAX)>>,
                HTTP_IDLE_TIMEOUT, HTTP_HARD_TIMEOUT),
       OFPPacketOut(datapath, buffer_id, in_port,
                    <<OFPActionOutput(OFPP_FLOOD, OFPCML_MAX)>>, pkt) >>

\* target MAC or its port not learned: flood the original packet data
UnresolvedSent(datapath, in_port, buffer_id, pkt) ==
    << OFPPacketOut(datapath, buffer_id, in_port,
                    <<OFPActionOutput(OFPP_FLOOD, OFPCML_MAX)>>, pkt) >>

\* mutant: the first packet forwarded as received, with a bare output action
ResolvedSent_PlainForward(datapath, in_port, buffer_id, pkt, target, target_server_mac, out_port) ==
    << add_flow(datapath, HTTP_PRIORITY,
                HttpMatch(in_port, pkt.ipv4[1].src, pkt.ipv4[1].dst,
                          pkt.tcp[1].dst_port),
                HttpActions(target, target_server_mac, out_port),
                HTTP_IDLE_TIMEOUT, HTTP_HARD_TIMEOUT),
       OFPPacketOut(datapath, buffer_id, in_port,
                    <<OFPActionOutput(out_port, OFPCML_MAX)>>, pkt) >>

\* mutant: the redirection flow installed at the learning-switch priority
ResolvedSent_L2Priority(datapath, in_port, buffer_id, pkt, target, target_server_mac, out_port) ==
    LET dst_ip == pkt.ipv4[1].dst
        data_to_send == IF target # dst_ip
                        THEN RewritePacket(pkt, target_server_mac, target)
                        ELSE pkt
        actions == HttpActions(target, target_server_mac, out_port)
    IN  << add_flow(datapath, L2_PRIORITY,
                    HttpMatch(in_port, pkt.ipv4[1].src, dst_ip, pkt.tcp[1].dst_port),
                    actions, HTTP_IDLE_TIMEOUT, HTTP_HARD_TIMEOUT),
           OFPPacketOut(datapath, buffer_id, in_port, actions, data_to_send) >>

\* target resolved: the flow and the packet-out, with the same actions
ResolvedSent(datapath, in_port, buffer_id, pkt, target, target_server_mac, out_port) ==
    LET dst_ip == pkt.ipv4[1].dst
        data_to_send == IF target # dst_ip
                        THEN RewritePacket(pkt, target_server_mac, target)
                        ELSE pkt
        actions == HttpActions(target, target_server_mac, out_port)
    IN  << add_flow(datapath, HTTP_PRIORITY,
                    HttpMatch(in_port, pkt.ipv4[1].src, dst_ip, pkt.tcp[1].dst_port),
                    actions, HTTP_IDLE_TIMEOUT, HTTP_HARD_TIMEOUT),
           OFPPacketOut(datapath, buffer_id, in_port, actions, data_to_send) >>

\* TCP port 80 branch: the messages sent
HttpSent(mtp, itm, datapath, in_port, buffer_id, pkt) ==
    LET target == ChooseTarget(pkt.ipv4[1].src, pkt.ipv4[1].dst)
        target_server_mac == DictGet(itm, target)
        out_port == IF NotMac(target_server_mac) THEN <<>>
                    ELSE DictGet(mtp[datapath], target_server_mac[1])
    IN  IF NotMac(target_server_mac) \/ NotPort(out_port)
        THEN UnresolvedSent(datapath, in_port, buffer_id, pkt)
        ELSE ResolvedSent(datapath, in_port, buffer_id, pkt, target,
                          target_server_mac[1], out_port[1])

L2Match(in_port, dst_mac) == [in_port |-> in_port, eth_dst |-> dst_mac]

\* mutant: a flow installed for the flood decision too
L2Sent_CachesFlood(mtp, datapath, in_port, buffer_id, pkt) ==
    LET out_port == IF pkt.eth_dst \in DOMAIN mtp[datapath]
                    THEN mtp[datapath][pkt.eth_dst] ELSE OFPP_FLOOD
        actions == <<OFPActionOutput(out_port, OFPCML_MAX)>>
    IN  << add_flow(datapath, L2_PRIORITY, L2Match(in_port, pkt.eth_dst),
                    actions, 0, 0),
           OFPPacketOut(datapath, buffer_id, in_port, actions, pkt) >>

\* learning-switch branch: the messages sent
L2Sent(mtp, datapath, in_port, buffer_id, pkt) ==
    LET out_port == IF pkt.eth_dst \in DOMAIN mtp[datapath]
                    THEN mtp[datapath][pkt.eth_dst] ELSE OFPP_FLOOD
        actions == <<OFPActionOutput(out_port, OFPCML_MAX)>>
        po == OFPPacketOut(datapath, buffer_id, in_port, actions, pkt)
    IN  IF out_port # OFPP_FLOOD
        THEN << add_flow(datapath, L2_PRIORITY, L2Match(in_port, pkt.eth_dst),
                         actions, 0, 0), po >>
        ELSE << po >>

packet_in_handler(datapath, in_port, pkt) ==
    LET mtp == LearnMac(mac_to_port, datapath, pkt.eth_src, in_port)
        itm == IF pkt.arp # <<>>
               THEN LearnIp(ip_to_mac, pkt.arp[1].src_ip, pkt.arp[1].src_mac)
               ELSE ip_to_mac
    IN  /\ datapath \in datapaths
        /\ sent = <<>>
        /\ msg' = [type |-> "packet_in", datapath |-> datapath,
                   buffer_id |-> OFP_NO_BUFFER, in_port |-> in_port, data |-> pkt]
        /\ mac_to_port' = mtp
        /\ ip_to_mac' = itm
        /\ target_server_ip' =
               IF pkt.arp = <<>> /\ IsHttp(pkt)
               THEN <<ChooseTarget(pkt.ipv4[1].src, pkt.ipv4[1].dst)>> ELSE <<>>
        /\ sent' = IF pkt.arp # <<>>
                   THEN ArpSent(mtp, datapath, in_port, OFP_NO_BUFFER, pkt)
                   ELSE IF IsHttp(pkt)
                   THEN HttpSent(mtp, itm, datapath, in_port, OFP_NO_BUFFER, pkt)
                   ELSE L2Sent(mtp, datapath, in_port, OFP_NO_BUFFER, pkt)
        /\ UNCHANGED datapaths

(* ---------------------------------------------------------------------- *)
(* datapath.send_msg: the handler's messages leave for the switch and the  *)
(* controller is ready for the next event                                  *)
(* ---------------------------------------------------------------------- *)
NoEvent == [type |-> "none"]

send_msg ==
    /\ sent # <<>>
    /\ sent' = <<>>
    /\ msg' = NoEvent
    /\ target_server_ip' = <<>>
    /\ prior' = <<>>
    /\ UNCHANGED <<mac_to_port, ip_to_mac, datapaths>>

(* ---------------------------------------------------------------------- *)
(* The channel to a switch is lost: the datapath leaves the main           *)
(* dispatcher; the application registers no handler for it                 *)
(* ---------------------------------------------------------------------- *)
NoPacket == [state |-> "none"]

switch_detach(datapath) ==
    /\ datapath \in datapaths
    /\ sent = <<>>
    /\ datapaths' = datapaths \ {datapath}
    /\ UNCHANGED <<mac_to_port, ip_to_mac, msg, target_server_ip, sent, prior>>

(* ---------------------------------------------------------------------- *)
(* Specifications                                                          *)
(* ---------------------------------------------------------------------- *)
Init ==
    /\ mac_to_port = EmptyDict
    /\ ip_to_mac = EmptyDict
    /\ datapaths = {}
    /\ msg = NoEvent
    /\ target_server_ip = <<>>
    /\ sent = <<>>
    /\ prior = <<>>
    /\ flow_table = [d \in Switches |-> {}]
    /\ dataplane = NoPacket

SwitchFeatures ==
    \E d \in Switches : switch_features_handler(d) /\ UNCHANGED switch_vars

PacketIn ==
    \E d \in Switches, p \in Ports, pkt \in Packets :
        packet_in_handler(d, p, pkt) /\ prior' = <<>> /\ UNCHANGED switch_vars

SendMsg == send_msg /\ UNCHANGED switch_vars

Next == SwitchFeatures \/ PacketIn \/ SendMsg

Spec == Init /\ [][Next]_vars

\* the same handlers, the packets one of each kind, and the binding each
\* packet-in replaces kept in `prior`
PacketInLearn ==
    \E d \in Switches, p \in Ports, pkt \in LearnPackets :
        /\ packet_in_handler(d, p, pkt)
        /\ prior' = IF d \in DOMAIN mac_to_port
                    THEN DictGet(mac_to_port[d], pkt.eth_src) ELSE <<>>
        /\ UNCHANGED switch_vars

NextLearn == SwitchFeatures \/ PacketInLearn \/ SendMsg

SpecLearn == Init /\ [][NextLearn]_vars

(* ---------------------------------------------------------------------- *)
(* What the switch does with a packet-out or with a packet matching a      *)
(* flow: the actions applied in order, every output emitting the packet as *)
(* rewritten so far                                                        *)
(* ---------------------------------------------------------------------- *)
SetField(data, field, value) ==
    IF field = "eth_dst" THEN [data EXCEPT !.eth_dst = value]
    ELSE IF field = "ipv4_dst" /\ data.ipv4 # <<>>
    THEN [data EXCEPT !.ipv4 = <<[@[1] EXCEPT !.dst = value]>>]
    ELSE data

RECURSIVE ApplyActions(_, _)
ApplyActions(data, actions) ==
    IF actions = <<>> THEN <<>>
    ELSE LET a == Head(actions)
         IN  IF a.type = "OUTPUT"
             THEN <<[port |-> a.port, data |-> data]>>
                      \o ApplyActions(data, Tail(actions))
             ELSE ApplyActions(SetField(data, a.field, a.value), Tail(actions))

Emitted(po) == ApplyActions(po.data, po.actions)

IsSetField(a, field, value) ==
    a.type = "SET_FIELD" /\ a.field = field /\ a.value = value

IsOutputTo(a, port) == a.type = "OUTPUT" /\ a.port = port

FlowMods == { i \in DOMAIN sent : sent[i].type = "flow_mod" }
PacketOuts == { i \in DOMAIN sent : sent[i].type = "packet_out" }

\* the event being handled is a packet-in of the TCP port 80 branch
HttpPacketIn ==
    /\ msg.type = "packet_in"
    /\ msg.data.arp = <<>>
    /\ msg.data.ipv4 # <<>>
    /\ msg.data.tcp # <<>>
    /\ msg.data.tcp[1].dst_port = 80

\* the MAC table of the switch of the event, as the handler reads it
SwitchTable == mac_to_port[msg.datapath]

(* ---------------------------------------------------------------------- *)
(* C1  Redirection hot path                                                *)
(* ---------------------------------------------------------------------- *)
C1_Case ==
    /\ HttpPacketIn
    /\ msg.data.ipv4[1].src \in DOMAIN client_to_edge_server_map
    /\ msg.data.ipv4[1].dst = "10.0.0.1"
    /\ client_to_edge_server_map[msg.data.ipv4[1].src] \in DOMAIN ip_to_mac
    /\ ip_to_mac[client_to_edge_server_map[msg.data.ipv4[1].src]]
           \in DOMAIN SwitchTable

\* C1: a TCP port 80 packet-in on switch d, port p, from a client c of the
\* affinity table (c -> e) to the central address, with ip_to_mac[e] = m and
\* mac_to_port[d][m] = q known, installs on d exactly one flow, matching
\* (in_port p, IPv4, TCP, ipv4_src c, ipv4_dst central, tcp_dst 80) with the
\* actions [set ipv4_dst e, set eth_dst m, output q] in that order, and sends
\* one packet-out for the packet out of port q.
C1_RedirectInstallsFlow ==
    C1_Case =>
        LET c == msg.data.ipv4[1].src
            e == client_to_edge_server_map[c]
            m == ip_to_mac[e]
            q == SwitchTable[m]
        IN  /\ Len(sent) = 2
            /\ sent[1].type = "flow_mod"
            /\ sent[1].datapath = msg.datapath
            /\ sent[1].match =
                   [in_port |-> msg.in_port, eth_type |-> 2048, ip_proto |-> 6,
                    ipv4_src |-> c, ipv4_dst |-> "10.0.0.1", tcp_dst |-> 80]
            /\ Len(sent[1].instructions) = 3
            /\ IsSetField(sent[1].instructions[1], "ipv4_dst", e)
            /\ IsSetField(sent[1].instructions[2], "eth_dst", m)
            /\ IsOutputTo(sent[1].instructions[3], q)
            /\ sent[2].type = "packet_out"
            /\ sent[2].datapath = msg.datapath
            /\ sent[2].in_port = msg.in_port
            /\ sent[2].data.eth_src = msg.data.eth_src
            /\ sent[2].data.tcp = msg.data.tcp
            /\ Len(Emitted(sent[2])) = 1
            /\ Emitted(sent[2])[1].port = q

\* a redirection that changes both the port and the destination MAC
C1_Witness ==
    /\ C1_Case
    /\ FlowMods # {}
    /\ SwitchTable[ip_to_mac["10.0.1.1"]] # msg.in_port
    /\ ip_to_mac["10.0.1.1"] # msg.data.eth_dst

(* ---------------------------------------------------------------------- *)
(* C2  Fallback safety                                                     *)
(* ---------------------------------------------------------------------- *)
C2_Case ==
    /\ HttpPacketIn
    /\ \/ target_server_ip[1] \notin DOMAIN ip_to_mac
       \/ ip_to_mac[target_server_ip[1]] \notin DOMAIN SwitchTable

\* C2: a TCP port 80 packet-in whose target has no MAC in ip_to_mac, or whose
\* MAC has no port on the receiving switch, installs no flow; its packet-out
\* has the single action flood and carries the packet data as received.
C2_FallbackSafety ==
    C2_Case =>
        /\ FlowMods = {}
        /\ Len(sent) = 1
        /\ sent[1].type = "packet_out"
        /\ Len(sent[1].actions) = 1
        /\ IsOutputTo(sent[1].actions[1], OFPP_FLOOD)
        /\ sent[1].data = msg.data
        /\ \A i \in DOMAIN Emitted(sent[1]) : Emitted(sent[1])[i].data = msg.data

\* the target's MAC is known, and has a port on another switch only
C2_Witness ==
    /\ C2_Case
    /\ target_server_ip[1] # msg.data.ipv4[1].dst
    /\ target_server_ip[1] \in DOMAIN ip_to_mac
    /\ \E d \in DOMAIN mac_to_port :
           ip_to_mac[target_server_ip[1]] \in DOMAIN mac_to_port[d]
    /\ PacketOuts # {}

(* ---------------------------------------------------------------------- *)
(* C3  Rewrite consistency                                                 *)
(* ---------------------------------------------------------------------- *)
\* the flow-mods of the event that rewrite the destination to (T, M)
RewriteFlows(T, M) ==
    { i \in FlowMods :
        /\ \E k \in DOMAIN sent[i].instructions :
               IsSetField(sent[i].instructions[k], "ipv4_dst", T)
        /\ \E k \in DOMAIN sent[i].instructions :
               IsSetField(sent[i].instructions[k], "eth_dst", M) }

\* C3: whenever a packet-in installs a flow that rewrites the destination to
\* IP T and MAC M, the packet-out of the same packet-in emits the packet with
\* destination IP T and destination MAC M.
C3_RewriteConsistency ==
    msg.type = "packet_in" =>
        \A T \in IPs \cup {"10.0.2.1"}, M \in MACs :
            RewriteFlows(T, M) # {} =>
                /\ PacketOuts # {}
                /\ \A j \in PacketOuts :
                       /\ Emitted(sent[j]) # <<>>
                       /\ \A k \in DOMAIN Emitted(sent[j]) :
                              /\ Emitted(sent[j])[k].data.ipv4[1].dst = T
                              /\ Emitted(sent[j])[k].data.eth_dst = M

\* a rewriting flow for a packet that arrived with another destination
C3_Witness ==
    /\ msg.type = "packet_in"
    /\ \E T \in IPs, M \in MACs :
           /\ RewriteFlows(T, M) # {}
           /\ msg.data.ipv4[1].dst # T
           /\ msg.data.eth_dst # M

(* ---------------------------------------------------------------------- *)
(* C4  Redirection determinism                                             *)
(* ---------------------------------------------------------------------- *)
C4_Case ==
    /\ HttpPacketIn
    /\ msg.data.ipv4[1].dst = "10.0.0.1"
    /\ msg.data.ipv4[1].src \in DOMAIN client_to_edge_server_map

\* C4: for a TCP port 80 packet-in to the central address from a client of
\* the affinity table, the chosen target is the table's value for the client,
\* whatever the learning tables hold; a flow installed for it rewrites the
\* destination IP to that value.
C4_RedirectionDeterminism ==
    C4_Case =>
        /\ target_server_ip = <<client_to_edge_server_map[msg.data.ipv4[1].src]>>
        /\ \A i \in FlowMods :
               IsSetField(sent[i].instructions[1], "ipv4_dst",
                          client_to_edge_server_map[msg.data.ipv4[1].src])

\* the decision taken while the edge server's MAC is bound to some address
\* and the tables of both switches are populated
C4_Witness ==
    /\ C4_Case
    /\ target_server_ip = <<"10.0.1.1">>
    /\ DOMAIN mac_to_port = Switches
    /\ "10.0.0.1" \in DOMAIN ip_to_mac

(* ---------------------------------------------------------------------- *)
(* C5  Least-loaded selection                                              *)
(* ---------------------------------------------------------------------- *)
EdgeServers == { client_to_edge_server_map[c] : c \in DOMAIN client_to_edge_server_map }

C5_Case ==
    /\ HttpPacketIn
    /\ msg.data.ipv4[1].dst = "10.0.0.1"
    /\ msg.data.ipv4[1].src \notin DOMAIN client_to_edge_server_map

\* C5: for a TCP port 80 packet-in to the central address from a client
\* without an affinity entry, the chosen target is a known edge server (the
\* one with the least connections, whose counter the decision increments).
C5_LeastLoadedTarget ==
    C5_Case => target_server_ip[1] \in EdgeServers

(* ---------------------------------------------------------------------- *)
(* C6  Address-resolution learning                                         *)
(* ---------------------------------------------------------------------- *)
ArpPacketIn == msg.type = "packet_in" /\ msg.data.arp # <<>>

\* C6: an ARP packet-in with sender IP a and sender MAC m on any switch
\* leaves ip_to_mac[a] = m; a binding is changed or created only by an ARP
\* packet-in with that sender IP and never removed; every TCP port 80
\* packet-in, on any switch, whose target has a binding and that installs a
\* flow rewrites the destination MAC to the binding left by the latest ARP
\* packet-in for the target.
C6_ArpLearning ==
    [][ /\ ArpPacketIn' =>
               /\ msg'.data.arp[1].src_ip \in DOMAIN ip_to_mac'
               /\ ip_to_mac'[msg'.data.arp[1].src_ip] = msg'.data.arp[1].src_mac
        /\ DOMAIN ip_to_mac \subseteq DOMAIN ip_to_mac'
        /\ \A a \in DOMAIN ip_to_mac' :
               (a \notin DOMAIN ip_to_mac \/ ip_to_mac'[a] # ip_to_mac[a]) =>
                   ArpPacketIn' /\ msg'.data.arp[1].src_ip = a
        /\ (HttpPacketIn' /\ FlowMods' # {}) =>
               /\ target_server_ip'[1] \in DOMAIN ip_to_mac
               /\ \A i \in FlowMods' :
                      IsSetField(sent'[i].instructions[2], "eth_dst",
                                 ip_to_mac[target_server_ip'[1]])
      ]_vars

\* a redirection on switch 2 resolved through a binding, with one more
\* address bound
C6_Witness ==
    /\ HttpPacketIn
    /\ msg.datapath = 2
    /\ FlowMods # {}
    /\ target_server_ip = <<"10.0.1.1">>
    /\ IsSetField(sent[1].instructions[2], "eth_dst", ip_to_mac["10.0.1.1"])
    /\ Cardinality(DOMAIN ip_to_mac) >= 2

(* ---------------------------------------------------------------------- *)
(* C7  Switch bootstrap                                                    *)
(* ---------------------------------------------------------------------- *)
\* C7: a switch-features event sends exactly two flow-mods to that switch:
\* first priority 0, empty match, output to the controller without
\* buffering; then priority 100, match on the ARP ethertype, output flood;
\* both with idle and hard timeout 0; nothing else is sent.
C7_SwitchBootstrap ==
    msg.type = "switch_features" =>
        /\ Len(sent) = 2
        /\ \A i \in {1, 2} :
               /\ sent[i].type = "flow_mod"
               /\ sent[i].datapath = msg.datapath
               /\ sent[i].idle_timeout = 0
               /\ sent[i].hard_timeout = 0
               /\ Len(sent[i].instructions) = 1
        /\ sent[1].priority = 0
        /\ DOMAIN sent[1].match = {}
        /\ IsOutputTo(sent[1].instructions[1], OFPP_CONTROLLER)
        /\ sent[1].instructions[1].max_len = OFPCML_NO_BUFFER
        /\ sent[2].priority = 100
        /\ DOMAIN sent[2].match = {"eth_type"}
        /\ sent[2].match.eth_type = 2054
        /\ IsOutputTo(sent[2].instructions[1], OFPP_FLOOD)

\* the features event of a switch that attached before and has learned state
C7_Witness ==
    /\ msg.type = "switch_features"
    /\ Len(sent) = 2
    /\ msg.datapath \in DOMAIN mac_to_port

(* ---------------------------------------------------------------------- *)
(* C8  Last-write-wins learning                                            *)
(* ---------------------------------------------------------------------- *)
\* the step is the handling of a packet-in
PacketInStep == msg.type = "none" /\ msg'.type = "packet_in"

\* C8: every packet-in on switch d with Ethernet source s, whatever its
\* branch, leaves mac_to_port[d][s] equal to its ingress port; no other step
\* and no other packet-in changes or creates that binding, and no binding is
\* ever removed: the binding is the port of the most recent packet-in on d
\* with source s.
C8_LastWriteWins ==
    [][ /\ PacketInStep =>
               /\ msg'.datapath \in DOMAIN mac_to_port'
               /\ msg'.data.eth_src \in DOMAIN mac_to_port'[msg'.datapath]
               /\ mac_to_port'[msg'.datapath][msg'.data.eth_src] = msg'.in_port
        /\ \A d \in DOMAIN mac_to_port :
               /\ d \in DOMAIN mac_to_port'
               /\ DOMAIN mac_to_port[d] \subseteq DOMAIN mac_to_port'[d]
        /\ \A d \in DOMAIN mac_to_port' : \A s \in DOMAIN mac_to_port'[d] :
               \/ /\ d \in DOMAIN mac_to_port
                  /\ s \in DOMAIN mac_to_port[d]
                  /\ mac_to_port'[d][s] = mac_to_port[d][s]
               \/ /\ PacketInStep
                  /\ msg'.datapath = d
                  /\ msg'.data.eth_src = s
      ]_vars

\* a TCP port 80 packet-in whose source was bound to another port before
C8_Witness ==
    /\ HttpPacketIn
    /\ prior # <<>>
    /\ prior[1] # msg.in_port
    /\ SwitchTable[msg.data.eth_src] = msg.in_port

(* ---------------------------------------------------------------------- *)
(* C9  Learning idempotence                                                *)
(* ---------------------------------------------------------------------- *)
\* C9: a packet-in whose (dpid, source MAC, ingress port) is the binding the
\* table already holds, as it does after one such packet-in, leaves the MAC
\* learning table unchanged: N consecutive observations of a triple give the
\* table that one gives.
C9_LearningIdempotence ==
    [][ ( /\ PacketInStep
          /\ msg'.datapath \in DOMAIN mac_to_port
          /\ msg'.data.eth_src \in DOMAIN mac_to_port[msg'.datapath]
          /\ mac_to_port[msg'.datapath][msg'.data.eth_src] = msg'.in_port )
        => mac_to_port' = mac_to_port
      ]_vars

\* a triple observed again while the switch holds another binding as well
C9_Witness ==
    /\ msg.type = "packet_in"
    /\ prior = <<msg.in_port>>
    /\ Cardinality(DOMAIN SwitchTable) >= 2

(* ---------------------------------------------------------------------- *)
(* C10  Learning-switch branch                                             *)
(* ---------------------------------------------------------------------- *)
L2PacketIn ==
    /\ msg.type = "packet_in"
    /\ msg.data.arp = <<>>
    /\ ~ HttpPacketIn

\* C10: a packet-in that is neither ARP nor IPv4+TCP to port 80 and whose
\* destination MAC has a learned port q on the switch installs one flow
\* (priority 1, match in_port + eth_dst, action output q, timeouts 0) and
\* sends the unmodified packet out of q; with the destination MAC unknown
\* on the switch it sends the unmodified packet with action flood and
\* installs no flow.
C10_LearningSwitchBranch ==
    L2PacketIn =>
        IF msg.data.eth_dst \in DOMAIN SwitchTable
        THEN /\ Len(sent) = 2
             /\ sent[1].type = "flow_mod"
             /\ sent[1].datapath = msg.datapath
             /\ sent[1].priority = 1
             /\ sent[1].match = [in_port |-> msg.in_port,
                                 eth_dst |-> msg.data.eth_dst]
             /\ Len(sent[1].instructions) = 1
             /\ IsOutputTo(sent[1].instructions[1], SwitchTable[msg.data.eth_dst])
             /\ sent[1].idle_timeout = 0
             /\ sent[1].hard_timeout = 0
             /\ sent[2].type = "packet_out"
             /\ sent[2].datapath = msg.datapath
             /\ sent[2].data = msg.data
             /\ Emitted(sent[2]) =
                    <<[port |-> SwitchTable[msg.data.eth_dst], data |-> msg.data]>>
        ELSE /\ Len(sent) = 1
             /\ sent[1].type = "packet_out"
             /\ sent[1].datapath = msg.datapath
             /\ sent[1].data = msg.data
             /\ Emitted(sent[1]) = <<[port |-> OFPP_FLOOD, data |-> msg.data]>>

\* a TCP segment to port 80 without an IPv4 header, forwarded to the learned
\* port of its destination
C10_Witness ==
    /\ L2PacketIn
    /\ msg.data.tcp # <<>>
    /\ msg.data.eth_dst \in DOMAIN SwitchTable
    /\ SwitchTable[msg.data.eth_dst] # msg.in_port
    /\ FlowMods = {1}

(* ---------------------------------------------------------------------- *)
(* C11  Pass-through applies no rewrite                                    *)
(* ---------------------------------------------------------------------- *)
C11_Case ==
    /\ HttpPacketIn
    /\ target_server_ip = <<msg.data.ipv4[1].dst>>

\* C11: a TCP port 80 packet-in whose target is its original destination IP
\* leaves the switch with the destination MAC and destination IP it arrived
\* with, and a flow installed for it holds no set-field action.
C11_PassThroughNoRewrite ==
    C11_Case =>
        /\ \A j \in PacketOuts : \A k \in DOMAIN Emitted(sent[j]) :
               /\ Emitted(sent[j])[k].data.eth_dst = msg.data.eth_dst
               /\ Emitted(sent[j])[k].data.ipv4[1].dst = msg.data.ipv4[1].dst
        /\ \A i \in FlowMods : \A k \in DOMAIN sent[i].instructions :
               sent[i].instructions[k].type # "SET_FIELD"

(* ---------------------------------------------------------------------- *)
(* C13  One packet-out per packet-in                                       *)
(* ---------------------------------------------------------------------- *)
\* the ports the actions of a message output to, in order
OutputPorts(actions) ==
    LET outs == SelectSeq(actions, LAMBDA a : a.type = "OUTPUT")
    IN  [k \in DOMAIN outs |-> outs[k].port]

\* C13: every packet-in, in the ARP branch, the TCP port 80 branch (resolved
\* or not) and the learning-switch branch, ends with exactly one packet-out,
\* the last message sent, for the originating switch and ingress port, with
\* one output action, to a learned port of that switch or to flood.
C13_OnePacketOut ==
    msg.type = "packet_in" =>
        /\ Cardinality(PacketOuts) = 1
        /\ PacketOuts = {Len(sent)}
        /\ sent[Len(sent)].datapath = msg.datapath
        /\ sent[Len(sent)].in_port = msg.in_port
        /\ Len(OutputPorts(sent[Len(sent)].actions)) = 1
        /\ \/ OutputPorts(sent[Len(sent)].actions)[1] = OFPP_FLOOD
           \/ \E m \in DOMAIN SwitchTable :
                  OutputPorts(sent[Len(sent)].actions)[1] = SwitchTable[m]

\* an ARP packet-in sent to the learned port of its destination
C13_Witness ==
    /\ ArpPacketIn
    /\ Cardinality(PacketOuts) = 1
    /\ msg.data.eth_dst \in DOMAIN SwitchTable
    /\ OutputPorts(sent[1].actions) = <<SwitchTable[msg.data.eth_dst]>>
    /\ SwitchTable[msg.data.eth_dst] # msg.in_port

(* ---------------------------------------------------------------------- *)
(* C18  Non-matching application packets fall through                      *)
(* ---------------------------------------------------------------------- *)
\* TCP to port 80 without an IPv4 header, or IPv4 + TCP to another port
C18_Case ==
    /\ msg.type = "packet_in"
    /\ msg.data.arp = <<>>
    /\ msg.data.tcp # <<>>
    /\ \/ msg.data.ipv4 = <<>> /\ msg.data.tcp[1].dst_port = 80
       \/ msg.data.ipv4 # <<>> /\ msg.data.tcp[1].dst_port # 80

\* C18: a packet-in carrying TCP to port 80 without an IPv4 header, or
\* IPv4+TCP to another port, takes no redirection decision, gets no
\* priority-10 flow and no rewrite: at most one flow, matching in_port and
\* eth_dst only, and the handler ends with one packet-out of the packet as
\* received, to the learned port of its destination MAC or to flood.
C18_FallThrough ==
    C18_Case =>
        /\ target_server_ip = <<>>
        /\ \A i \in FlowMods :
               /\ sent[i].priority # 10
               /\ DOMAIN sent[i].match = {"in_port", "eth_dst"}
        /\ \A i \in FlowMods : \A k \in DOMAIN sent[i].instructions :
               sent[i].instructions[k].type = "OUTPUT"
        /\ Cardinality(FlowMods) <= 1
        /\ Cardinality(PacketOuts) = 1
        /\ \A j \in PacketOuts :
               /\ sent[j].data = msg.data
               /\ Len(sent[j].actions) = 1
               /\ sent[j].actions[1].type = "OUTPUT"
               /\ sent[j].actions[1].port =
                      IF msg.data.eth_dst \in DOMAIN SwitchTable
                      THEN SwitchTable[msg.data.eth_dst] ELSE OFPP_FLOOD

\* IPv4 + TCP to port 8080 from an affinity client to the central address,
\* with the edge server resolved on the switch
C18_Witness ==
    /\ C18_Case
    /\ msg.data.ipv4 # <<>>
    /\ msg.data.ipv4[1].dst = "10.0.0.1"
    /\ "10.0.1.1" \in DOMAIN ip_to_mac
    /\ ip_to_mac["10.0.1.1"] \in DOMAIN SwitchTable
    /\ PacketOuts # {}

(* ---------------------------------------------------------------------- *)
(* C19  Frame of a packet-in                                               *)
(* ---------------------------------------------------------------------- *)
\* the binding of MAC s on switch d in table t, empty if there is none
Binding(t, d, s) == IF d \in DOMAIN t THEN DictGet(t[d], s) ELSE <<>>

\* C19: the handling of a packet-in from switch d changes no binding of the
\* MAC table other than (d, source MAC), changes ip_to_mac only for an ARP
\* packet and only at its sender IP, and leaves the set of attached
\* switches alone; its learning step followed by the learning step of any
\* packet-in of another switch gives the same MAC table as the two steps in
\* the other order.
C19_PacketInFrame ==
    [][ /\ PacketInStep =>
            /\ \A d \in Switches, s \in MACs :
                   (d # msg'.datapath \/ s # msg'.data.eth_src) =>
                       Binding(mac_to_port', d, s) = Binding(mac_to_port, d, s)
            /\ \A a \in DOMAIN ip_to_mac \cup DOMAIN ip_to_mac' :
                   (msg'.data.arp = <<>> \/ a # msg'.data.arp[1].src_ip) =>
                       DictGet(ip_to_mac', a) = DictGet(ip_to_mac, a)
            /\ datapaths' = datapaths
            /\ \A d2 \in Switches \ {msg'.datapath} : \A s2 \in MACs, p2 \in Ports :
                   LearnMac(mac_to_port', d2, s2, p2)
                       = LearnMac(LearnMac(mac_to_port, d2, s2, p2),
                                  msg'.datapath, msg'.data.eth_src, msg'.in_port)
      ]_vars

\* an ARP packet-in on switch 1 while switch 2 holds bindings and another
\* address is bound
C19_Witness ==
    /\ ArpPacketIn
    /\ msg.datapath = 1
    /\ 2 \in DOMAIN mac_to_port
    /\ Cardinality(DOMAIN mac_to_port[2]) = 2
    /\ Cardinality(DOMAIN SwitchTable) = 2
    /\ Cardinality(DOMAIN ip_to_mac) >= 2

(* ---------------------------------------------------------------------- *)
(* SpecDetach: the handlers of SpecLearn and the loss of a switch          *)
(* ---------------------------------------------------------------------- *)
SwitchDetach ==
    \E d \in Switches : switch_detach(d) /\ UNCHANGED switch_vars

NextDetach == SwitchFeatures \/ PacketInLearn \/ SendMsg \/ SwitchDetach

SpecDetach == Init /\ [][NextDetach]_vars

(* ---------------------------------------------------------------------- *)
(* C17  Switch detach                                                      *)
(* ---------------------------------------------------------------------- *)
\* C17: once the channel to a switch is lost the controller holds no
\* (switch, MAC) -> port binding for it: a switch that is not attached has
\* an empty MAC table, so that it re-attaches with an empty table.
C17_DetachDropsBindings ==
    \A d \in Switches \ datapaths : \A s \in MACs :
        Binding(mac_to_port, d, s) = <<>>

(* ---------------------------------------------------------------------- *)
(* The switch side of the channel: the flow table the flow-mods of         *)
(* add_flow build, and the path of one packet through a switch             *)
(* ---------------------------------------------------------------------- *)
ctrl_vars == <<mac_to_port, ip_to_mac, datapaths, msg, target_server_ip, sent, prior>>

\* the switches and the frames followed on the data plane
DataSwitches == {1}

\* an ARP frame, a TCP port 80 segment and a frame of another protocol,
\* each from one host to another
SwitchPackets ==
    { pkt \in LearnPackets :
        /\ pkt.eth_src # pkt.eth_dst
        /\ \/ pkt.arp # <<>>
           \/ pkt.arp = <<>> /\ IsHttp(pkt) /\ pkt.ethertype = OFP_ETH_TYPE_IP
           \/ pkt.arp = <<>> /\ pkt.ipv4 = <<>> /\ pkt.tcp = <<>> }

\* the value of a match field in a packet, empty when the packet has no
\* such header
PacketField(in_port, pkt, field) ==
    IF field = "in_port" THEN <<in_port>>
    ELSE IF field = "eth_type" THEN <<pkt.ethertype>>
    ELSE IF field = "eth_dst" THEN <<pkt.eth_dst>>
    ELSE IF pkt.ipv4 = <<>> THEN <<>>
    ELSE IF field = "ip_proto" THEN <<pkt.ipv4[1].proto>>
    ELSE IF field = "ipv4_src" THEN <<pkt.ipv4[1].src>>
    ELSE IF field = "ipv4_dst" THEN <<pkt.ipv4[1].dst>>
    ELSE IF field = "tcp_dst" /\ pkt.tcp # <<>> THEN <<pkt.tcp[1].dst_port>>
    ELSE <<>>

\* the OFPMatch of a flow matches a packet arriving on in_port
Matches(match, in_port, pkt) ==
    \A field \in DOMAIN match :
        PacketField(in_port, pkt, field) = <<match[field]>>

\* OFPFlowMod with the default command, OFPFC_ADD: the flow replaces the
\* entry of the same priority and match, if any
InstallFlow(table, mod) ==
    { f \in table : ~(f.priority = mod.priority /\ f.match = mod.match) }
        \cup {mod}

\* the entries of the highest priority among those matching the packet
Lookup(table, in_port, pkt) ==
    LET hits == { f \in table : Matches(f.match, in_port, pkt) }
    IN  { f \in hits : \A g \in hits : g.priority <= f.priority }

\* a packet enters switch d on port p: it is dropped when the table has no
\* matching entry, and otherwise the actions of the matching entry are
\* applied, an output to the controller being a packet-in in flight. The
\* record of the packet keeps whether both baseline flows were in the table
\* and whether a flow of the TCP port 80 branch matched the packet
switch_receive(d, p, pkt) ==
    LET table == flow_table[d]
        hits == Lookup(table, p, pkt)
        arrival == [state |-> "dropped", datapath |-> d, in_port |-> p,
                    data |-> pkt, matched |-> <<>>,
                    baseline |-> \A k \in DOMAIN BaselineFlows(d) :
                                     BaselineFlows(d)[k] \in table,
                    cached |-> \E f \in table :
                                   /\ f.priority = HTTP_PRIORITY
                                   /\ Matches(f.match, p, pkt),
                    by_flow |-> <<>>, by_packet_out |-> <<>>]
    IN  /\ dataplane = NoPacket
        /\ IF hits = {}
           THEN dataplane' = arrival
           ELSE \E f \in hits :
                    LET outs == ApplyActions(pkt, f.instructions)
                        local == SelectSeq(outs,
                                     LAMBDA o : o.port # OFPP_CONTROLLER)
                    IN  dataplane' =
                            [arrival EXCEPT
                                !.state = IF Len(local) < Len(outs)
                                          THEN "to_controller" ELSE "forwarded",
                                !.matched = <<f>>,
                                !.by_flow = local]
        /\ UNCHANGED flow_table
        /\ UNCHANGED ctrl_vars

\* the packet-in in flight reaches _packet_in_handler
switch_packet_in ==
    /\ dataplane.state = "to_controller"
    /\ packet_in_handler(dataplane.datapath, dataplane.in_port, dataplane.data)
    /\ prior' = <<>>
    /\ dataplane' = [dataplane EXCEPT !.state = "at_controller"]
    /\ UNCHANGED flow_table

\* datapath.send_msg, seen from the switch: the oldest message sent is
\* applied, a flow-mod to the flow table, a packet-out to the packet
switch_send_msg ==
    /\ sent # <<>>
    /\ LET m == Head(sent)
       IN  /\ flow_table' =
                  IF m.type = "flow_mod"
                  THEN [flow_table EXCEPT
                           ![m.datapath] = InstallFlow(@, m)]
                  ELSE flow_table
           /\ dataplane' =
                  IF m.type = "packet_out" /\ dataplane.state = "at_controller"
                  THEN [dataplane EXCEPT !.state = "sent_out",
                                         !.by_packet_out = Emitted(m)]
                  ELSE dataplane
    /\ sent' = Tail(sent)
    /\ msg' = IF Tail(sent) = <<>> THEN NoEvent ELSE msg
    /\ target_server_ip' = IF Tail(sent) = <<>> THEN <<>> ELSE target_server_ip
    /\ prior' = <<>>
    /\ UNCHANGED <<mac_to_port, ip_to_mac, datapaths>>

\* the packet has left the switch
switch_packet_done ==
    /\ dataplane.state \in {"dropped", "forwarded", "sent_out"}
    /\ dataplane' = NoPacket
    /\ UNCHANGED flow_table
    /\ UNCHANGED ctrl_vars

\* a flow with a non-zero idle or hard timeout expires
switch_flow_expire(d, f) ==
    /\ f \in flow_table[d]
    /\ f.idle_timeout > 0 \/ f.hard_timeout > 0
    /\ flow_table' = [flow_table EXCEPT ![d] = @ \ {f}]
    /\ UNCHANGED dataplane
    /\ UNCHANGED ctrl_vars

(* ---------------------------------------------------------------------- *)
(* SpecSwitch: the controller behind one switch; every packet-in is a      *)
(* packet the flow table of the switch sent to the controller              *)
(* ---------------------------------------------------------------------- *)
SwitchAttach ==
    \E d \in DataSwitches : switch_features_handler(d) /\ UNCHANGED switch_vars

SwitchReceive ==
    \E d \in DataSwitches, p \in Ports, pkt \in SwitchPackets :
        switch_receive(d, p, pkt)

FlowExpire ==
    \E d \in DataSwitches : \E f \in flow_table[d] : switch_flow_expire(d, f)

NextSwitch ==
    \/ SwitchAttach
    \/ SwitchReceive
    \/ switch_packet_in
    \/ switch_send_msg
    \/ switch_packet_done
    \/ FlowExpire

SpecSwitch == Init /\ [][NextSwitch]_vars

(* ---------------------------------------------------------------------- *)
(* C12  Every new HTTP flow gets a controller decision                     *)
(* ---------------------------------------------------------------------- *)
\* a TCP port 80 packet for the central server has entered a switch whose
\* table held both baseline flows and no flow of the TCP port 80 branch
\* matching it
C12_Case ==
    /\ dataplane.state \in {"dropped", "forwarded", "to_controller"}
    /\ dataplane.data.arp = <<>>
    /\ IsHttp(dataplane.data)
    /\ dataplane.data.ipv4[1].dst = central_server_ip
    /\ dataplane.baseline
    /\ ~dataplane.cached

\* C12: on a switch whose baseline rules are installed, a TCP port 80 packet
\* for the central server that no redirection flow matches is delivered to
\* the dispatcher as a packet-in, and no other flow of the controller (no
\* priority-1 learning-switch flow) forwards it in the switch.
C12_HttpReachesController ==
    C12_Case =>
        /\ dataplane.state = "to_controller"
        /\ dataplane.by_flow = <<>>

(* ---------------------------------------------------------------------- *)
(* C14  No ARP packet is sent twice                                        *)
(* ---------------------------------------------------------------------- *)
\* C14: an ARP packet that entered a switch is emitted through at most one
\* of the two paths, the priority-100 flood rule of the flow table or the
\* packet-out of the dispatcher's ARP branch, and never through both.
C14_ArpSentOnce ==
    (dataplane.state # "none" /\ dataplane.data.arp # <<>>) =>
        /\ ~(dataplane.by_flow # <<>> /\ dataplane.by_packet_out # <<>>)
        /\ Len(dataplane.by_flow) + Len(dataplane.by_packet_out) <= 1
        /\ dataplane.by_flow # <<>> =>
               /\ dataplane.matched[1].priority = ARP_PRIORITY
               /\ dataplane.state = "forwarded"

\* an ARP packet that reached the dispatcher before the flood rule was in
\* the table has left by the packet-out, the flood rule now installed
C14_Witness ==
    /\ dataplane.state = "sent_out"
    /\ dataplane.data.arp # <<>>
    /\ dataplane.by_packet_out # <<>>
    /\ dataplane.by_flow = <<>>
    /\ \E f \in flow_table[dataplane.datapath] : f.priority = ARP_PRIORITY

(* ---------------------------------------------------------------------- *)
(* C15  Flow priority and timeout policy                                   *)
(* ---------------------------------------------------------------------- *)
\* the flows by the branch that installs them, told by their match
IsHttpFlow(f) == "tcp_dst" \in DOMAIN f.match
IsL2Flow(f) == DOMAIN f.match = {"in_port", "eth_dst"}
AllFlows == UNION { flow_table[d] : d \in Switches }

\* C15: every flow of the TCP port 80 branch has a priority strictly greater
\* than every flow of the learning-switch branch and idle timeout 300 and
\* hard timeout 600, both non-zero and idle <= hard; every learning-switch
\* flow and both baseline flows have idle and hard timeout 0.
C15_PriorityAndTimeouts ==
    \A f \in AllFlows :
        IF IsHttpFlow(f)
        THEN /\ \A g \in AllFlows : IsL2Flow(g) => f.priority > g.priority
             /\ f.idle_timeout = HTTP_IDLE_TIMEOUT
             /\ f.hard_timeout = HTTP_HARD_TIMEOUT
             /\ f.idle_timeout # 0 /\ f.hard_timeout # 0
             /\ f.idle_timeout <= f.hard_timeout
        ELSE f.idle_timeout = 0 /\ f.hard_timeout = 0

\* a table with both baseline flows, a learning-switch flow and a flow of
\* the TCP port 80 branch
C15_Witness ==
    \E d \in Switches :
        /\ \E f \in flow_table[d] : IsHttpFlow(f)
        /\ \E g \in flow_table[d] : IsL2Flow(g)
        /\ \A k \in DOMAIN BaselineFlows(d) : BaselineFlows(d)[k] \in flow_table[d]

(* ---------------------------------------------------------------------- *)
(* C16  No stale or conflicting rules                                      *)
(* ---------------------------------------------------------------------- *)
\* the MAC a flow targets: the eth_dst it matches or the eth_dst it sets
TargetMacs(f) ==
    IF "eth_dst" \in DOMAIN f.match THEN {f.match.eth_dst}
    ELSE { f.instructions[k].value :
             k \in { j \in DOMAIN f.instructions :
                       /\ f.instructions[j].type = "SET_FIELD"
                       /\ f.instructions[j].field = "eth_dst" } }

\* C16: each non-baseline flow on a switch d outputs to the port the MAC
\* table now records on d for the MAC the flow targets, and no two flows
\* on d with the same priority and match have different actions.
C16_NoStaleFlows ==
    \A d \in Switches : \A f \in flow_table[d] :
        /\ (IsHttpFlow(f) \/ IsL2Flow(f)) =>
               \A m \in TargetMacs(f) :
                   \A k \in DOMAIN OutputPorts(f.instructions) :
                       Binding(mac_to_port, d, m)
                           = <<OutputPorts(f.instructions)[k]>>
        /\ \A g \in flow_table[d] :
               (g.priority = f.priority /\ g.match = f.match) =>
                   g.instructions = f.instructions

====
